---- MODULE Spec2Model ----
(***************************************************************************)
(* A model of ema2ambisonics: the radial filter design                     *)
(* (src/src/ema_radial_filters.py, src/src/utils.py) and the decoding of   *)
(* array signals (src/src/get_soundfield_coeffs_from_ema.py).              *)
(*                                                                         *)
(* Floating point numbers are modelled as records [t, x]:                  *)
(*   t = "num"    a finite number, x its value in units of 1/ONE           *)
(*   t = "big"    a finite number whose square overflows (about 1e200)     *)
(*   t = "inf"    a real infinity                                          *)
(*   t = "infnan" the complex inf+nanj that numpy gives for 1/(0+0j)       *)
(*   t = "nan"    NaN                                                      *)
(* Complex values are projected on the real line: the phase of a finite    *)
(* value is its sign.  Arithmetic on "num" is exact up to the truncation   *)
(* of the fixed point division.                                            *)
(***************************************************************************)
EXTENDS Integers, Sequences, FiniteSets, TLC

\* ------------------------------------------------------------------ bounds
\* Fixed point resolution: the number 1.0 is ONE units.
ONE == 8
\* Largest spherical harmonic order N a call is made with.
MaxN == 1
\* Largest number of frequency bins of the grid f.
MaxF == 3

\* ------------------------------------------------------------ float values
Num(x) == [t |-> "num", x |-> x]
NaN == [t |-> "nan", x |-> 0]
Inf == [t |-> "inf", x |-> 0]
InfNaN == [t |-> "infnan", x |-> 0]
Big == [t |-> "big", x |-> 0]
\* Python values that are no numbers.Number: a tuple such as (1, 2), and None.
PySeq == [t |-> "seq", x |-> 0]
PyNone == [t |-> "none", x |-> 0]

AbsInt(x) == IF x < 0 THEN -x ELSE x
SignInt(x) == IF x < 0 THEN -1 ELSE 1
\* Integer square root (floor).
ISqrt(x) == CHOOSE r \in 0..x : r * r <= x /\ (r + 1) * (r + 1) > x

\* isinstance(v, numbers.Number)
IsNumber(v) == v.t \in {"num", "big", "inf", "infnan", "nan"}

\* np.isnan: true of NaN and of a complex value with a NaN part.
IsNan(v) == v.t \in {"nan", "infnan"}

\* np.abs: the magnitude; abs(inf+nanj) is inf.
Abs(v) ==
  CASE v.t = "num" -> Num(AbsInt(v.x))
    [] v.t = "big" -> Big
    [] v.t \in {"inf", "infnan"} -> Inf
    [] OTHER -> NaN

\* a > b on magnitudes (results of Abs); any comparison with NaN is false.
MagGreater(a, b) ==
  CASE a.t = "nan" \/ b.t = "nan" -> FALSE
    [] a.t = "inf" -> b.t # "inf"
    [] a.t = "big" -> b.t = "num"
    [] OTHER -> b.t = "num" /\ a.x > b.x

\* a <= b on magnitudes; false when either is NaN.
MagLeq(a, b) ==
  CASE a.t = "nan" \/ b.t = "nan" -> FALSE
    [] OTHER -> ~MagGreater(a, b)

\* ----------------------------------------------- float arithmetic (numpy)
\* a * b
Mul(a, b) ==
  CASE a.t = "nan" \/ b.t = "nan" \/ a.t = "infnan" \/ b.t = "infnan" -> NaN
    [] a.t = "inf" \/ b.t = "inf" ->
         IF (a.t = "num" /\ a.x = 0) \/ (b.t = "num" /\ b.x = 0) THEN NaN ELSE Inf
    [] a.t = "big" /\ b.t = "big" -> Inf
    [] a.t = "big" -> IF b.x = 0 THEN Num(0) ELSE Big
    [] b.t = "big" -> IF a.x = 0 THEN Num(0) ELSE Big
    [] OTHER -> Num(a.x * b.x)

\* a + b
Add(a, b) ==
  CASE a.t = "nan" \/ b.t = "nan" \/ a.t = "infnan" \/ b.t = "infnan" -> NaN
    [] a.t = "inf" \/ b.t = "inf" -> Inf
    [] a.t = "big" \/ b.t = "big" -> Big
    [] OTHER -> Num(a.x + b.x)

\* 1 / v on a complex array element: 1/(0+0j) is inf+nanj.
Reciprocal(v) ==
  CASE v.t = "num" ->
         IF v.x = 0 THEN InfNaN
         ELSE Num(SignInt(v.x) * ((ONE * ONE) \div AbsInt(v.x)))
    [] v.t \in {"big", "inf"} -> Num(0)
    [] OTHER -> NaN

\* 10 ** (limit_db / 20), in units of 1/ONE, for the limits the model calls
\* with: -6 dB is 0.501, 0 dB is 1, 6 dB is 1.995, 20 dB is 10.
DbToAmplitude(limit_db) ==
  CASE limit_db.x = -6 -> Num(ONE \div 2)
    [] limit_db.x = 0 -> Num(ONE)
    [] limit_db.x = 6 -> Num(2 * ONE)
    [] OTHER -> Num(10 * ONE)

\* (2*limit)/pi * arctan(pi/(2*limit) * a) for a magnitude a > 0 and a limit
\* L > 0, both in units of 1/ONE, truncated.  pi is 22/7 and arctan(x) is
\* x/(1 + 9x^2/32) for x <= 1 and pi/2 - x/(x^2 + 9/32) for x > 1, which is
\* within 0.005 of arctan and, like arctan, stays below pi/2.
SoftMagnitude(a, L) ==
  LET p == 11 * a
      q == 7 * L
  IN  IF p <= q
      THEN (7 * L * 32 * p * q) \div (11 * (32 * q * q + 9 * p * p))
      ELSE L - (7 * L * 32 * p * q) \div (11 * (32 * p * p + 9 * q * q))

\* ---------------------------------------------------------- src/src/utils.py
\* One element of _limiting(data, 'soft', limit_db):
\* (2*limit)/pi * data/abs(data) * arctan(pi/(2*limit) * abs(data)).
\* 0/0 and inf/inf are NaN.
SoftLimit(d, limit) ==
  CASE d.t = "num" /\ d.x # 0 ->
         Num(SignInt(d.x) * SoftMagnitude(AbsInt(d.x), limit.x))
    [] d.t = "big" -> limit
    [] OTHER -> NaN

\* One element of the hard branch of _limiting, for an element of idx:
\* data / abs(data) * limit.
HardRescale(d, limit) ==
  CASE d.t = "num" -> Num(SignInt(d.x) * limit.x)
    [] d.t = "big" -> limit
    [] OTHER -> NaN

\* One element of _limiting(data, 'hard', limit_db):
\* idx = np.where(np.abs(data) > limit); data[idx] = data[idx]/abs(data[idx])*limit
HardLimit(d, limit) ==
  IF MagGreater(Abs(d), limit) THEN HardRescale(d, limit) ELSE d

\* _limiting(data, type, limit_db) on an array (a function row -> bin -> value).
\* A type that is neither 'soft' nor 'hard' returns data as it is.
Limiting(data, type, limit_db) ==
  LET limit == DbToAmplitude(limit_db)
  IN  [r \in DOMAIN data |->
        [j \in DOMAIN data[r] |->
          CASE type = "soft" -> SoftLimit(data[r][j], limit)
            [] type = "hard" -> HardLimit(data[r][j], limit)
            [] OTHER -> data[r][j]]]

\* lambda_squared of _tikhonov_regularization, in units of 1/ONE^2:
\* (1 - sqrt(1 - 1/limit**2)) / (1 + sqrt(1 - 1/limit**2)).
\* The square root of a negative number (limit < 1) is NaN.
LambdaSquared(limit) ==
  LET S == ONE * ONE
      q == S - (S * S) \div (limit.x * limit.x)
      r == ISqrt(S * q)
  IN  IF q < 0 THEN NaN ELSE Num((S * (S - r)) \div (S + r))

\* One element of _tikhonov_regularization:
\* np.conj(data) / (np.abs(data)**2 + lambda_squared)
TikhonovElement(d, lambda_squared) ==
  IF d.t # "num" \/ lambda_squared.t # "num" THEN NaN
  ELSE IF d.x * d.x + lambda_squared.x = 0 THEN NaN
  ELSE Num(SignInt(d.x) * ((AbsInt(d.x) * ONE * ONE) \div (d.x * d.x + lambda_squared.x)))

\* _tikhonov_regularization(data, limit_db) on an array.
TikhonovRegularization(data, limit_db) ==
  LET lambda_squared == LambdaSquared(DbToAmplitude(limit_db))
  IN  [r \in DOMAIN data |->
        [j \in DOMAIN data[r] |-> TikhonovElement(data[r][j], lambda_squared)]]

\* ------------------------------------------- src/src/ema_radial_filters.py
\* The arguments the model calls radial_filters_ema with.
FreqVals == {Num(0), Num(1), Big, NaN}
Grids == UNION {[0..(F - 1) -> FreqVals] : F \in 2..MaxF}
RVals == {PySeq, Num(-1), Num(0), Num(1), Inf, NaN}
LimitVals == {PyNone, Num(0), Num(6)}
HankelVals == {1, 2, 3}
RegVals == {"soft", "hard", "tikhonov", "asd"}

\* The messages of the ValueErrors.
ErrR == "R must be a single value"
ErrLimit == "limit_dB must be a single value"
ErrHankel == "hankel_type must be 1 or 2"
ErrReg == "Invalid regularization type"

\* The number of bins of an array row or of the grid.
Bins(row) == Cardinality(DOMAIN row)

\* np.zeros((rows, bins))
Zeros(rows, bins) == [r \in 0..(rows - 1) |-> [j \in 0..(bins - 1) |-> Num(0)]]

\* An index of a Python sequence of length len: a negative one counts from the end.
PyIndex(i, len) == IF i < 0 THEN i + len ELSE i

\* k = 2 * np.pi * f / 343, one element; the model's unit of k is that of f.
Wavenumber(fv) == fv

\* kR = k * R + 5 * np.finfo(float).eps, one element.  Num(0) stands for the
\* 5 eps that a product of zero is nudged to.
NudgedKR(kv, r) == Mul(kv, r)

\* One element of b_n[n, :] = -4 pi 1j**n (1j / kR**2) (1 / hankel_derivative),
\* with hankel_derivative = _derivative_sph_hankel(n, hankel_type, kR):
\*   kR NaN: NaN;  kR infinite: j_n and y_n are 0, 1/0 times 1j/inf = 0 is NaN;
\*   kR about 1e200: kR**2 overflows, 1j/inf = 0 times a finite 1/h' is 0;
\*   otherwise a finite value that is not 0.  The model's finite value has the
\*   magnitude 2 + 3n + 6|kR| (in units of 1/ONE) and a sign that turns with n
\*   (the factor 1j**n) and with the kind of the Hankel function.
RadialTerm(order, hankel_type, z) ==
  CASE z.t \in {"nan", "inf", "infnan"} -> NaN
    [] z.t = "big" -> Num(0)
    [] OTHER ->
         Num((IF (order + hankel_type) % 2 = 0 THEN 1 ELSE -1)
             * (2 + 3 * order + 6 * AbsInt(z.x)))

\* (-1)**m
MinusOnePower(deg) == IF deg % 2 = 0 THEN 1 ELSE -1

\* special.sph_harm(deg, order, 0, np.pi/2), the harmonic at the equator, which
\* is real: 0 where order - |deg| is odd; elsewhere the model takes the
\* magnitude as 1 and keeps the sign, (-1)^((order + |deg|)/2), times (-1)^deg
\* for a negative degree.
SphHarm(deg, order) ==
  LET a == AbsInt(deg)
      base == IF (order - a) % 2 = 1 THEN 0
              ELSE IF ((order + a) \div 2) % 2 = 0 THEN 1 ELSE -1
  IN  IF deg < 0 THEN MinusOnePower(deg) * base ELSE base

\* special.sph_harm(m, n_prime, 0, np.pi/2)**2
SphHarmSquared(deg, order) == Num(SphHarm(deg, order) * SphHarm(deg, order))

\* Roll with the shift taken the other way: the previous bin for a shift of -1.
RollOtherWay(row, shift) ==
  [j \in DOMAIN row |-> row[(j + shift) % Bins(row)]]

\* np.roll(row, shift): the element at i moves to (i + shift) mod bins.
Roll(row, shift) ==
  [j \in DOMAIN row |-> row[(j - shift) % Bins(row)]]

\* idx_nan = np.where(np.isnan(a)); a[idx_nan] = np.abs(np.roll(a, -1, axis=-1)[idx_nan])
NanPatch(a) ==
  [r \in DOMAIN a |->
    [j \in DOMAIN a[r] |->
      IF IsNan(a[r][j]) THEN Abs(Roll(a[r], -1)[j]) ELSE a[r][j]]]

\* 2 cos(2 pi q / n) for the transform lengths n = 2, 4 and 6, where it is an integer.
TwoCos(q, n) ==
  CASE n = 2 -> IF q % 2 = 0 THEN 2 ELSE -2
    [] n = 4 -> (CASE q % 4 = 0 -> 2 [] q % 4 = 2 -> -2 [] OTHER -> 0)
    [] OTHER -> (CASE q % 6 = 0 -> 2 [] q % 6 = 3 -> -2
                   [] q % 6 \in {1, 5} -> 1 [] OTHER -> -1)

RECURSIVE MiddleSum(_, _, _, _)
\* The sum over the bins j..(F-2) of row[j] * 2 cos(2 pi j t / n).
MiddleSum(row, j, t, n) ==
  IF j > Bins(row) - 2 THEN 0
  ELSE row[j].x * TwoCos(j * t, n) + MiddleSum(row, j + 1, t, n)

\* sc.fft.irfft of one row of F bins: n = 2 (F - 1) real samples,
\* x[t] = (X[0] + (-1)^t X[F-1] + sum over 0 < j < F-1 of 2 X[j] cos(2 pi j t / n)) / n.
\* A bin that is not finite makes every sample of the row NaN.
IrfftRow(row) ==
  LET F == Bins(row)
      n == 2 * (F - 1)
  IN  [t \in 0..(n - 1) |->
        IF \E j \in DOMAIN row : row[j].t # "num" THEN NaN
        ELSE Num((row[0].x + (IF t % 2 = 0 THEN 1 ELSE -1) * row[F - 1].x
                  + MiddleSum(row, 1, t, n)) \div n)]

\* pf.dsp.fractional_time_shift(signal, n_samples / 2, mode='cyclic') of one row.
CausalShift(row) == Roll(row, Bins(row) \div 2)

VARIABLES
  \* radial_filters_ema: the arguments
  f, R, N, limit_dB, regularization_type, hankel_type,
  \* where the call is, and the message of the ValueError it raised ("" for none)
  pc, raised,
  \* the local variables
  k, kR, b_n, n, radial_filters, m, n_prime, inverse_radial_filter,
  inverse_radial_filter_t,
  \* history: b_n and inverse_radial_filter as they were before their NaN patch,
  \* the numeric steps the call has run, and the grid f as the caller passed it
  b_n_before_patch, inverse_before_patch, ran, f_at_call,
  \* history: for each row of radial_filters, the pairs <<m, n_prime>> of the
  \* terms added to it since it was zeroed, in the order they were added
  terms

args == <<f, R, N, limit_dB, regularization_type, hankel_type>>
locals == <<k, kR, b_n, n, radial_filters, m, n_prime, inverse_radial_filter,
            inverse_radial_filter_t>>
history == <<b_n_before_patch, inverse_before_patch, ran, f_at_call, terms>>
designVars == <<args, pc, raised, locals, history>>

VARIABLES
  \* _limiting(data, type, limit_db): the array data of the caller, the other
  \* arguments, the array returned, and where the call is
  lim_data, lim_type, lim_db, lim_out, lim_pc,
  \* history: data as it was passed
  lim_before

limitVars == <<lim_data, lim_type, lim_db, lim_out, lim_pc, lim_before>>

VARIABLES
  \* get_sh_soundfield_coeffs_ema(signals, radial_filters, N, alpha): the
  \* arguments (signals.time, radial_filters.time, N, alpha)
  signals, filter_bank, dec_N, alpha,
  \* where the call is, and the error it raised ("" for none)
  dec_pc, dec_raised,
  \* the local variables: the arrays, and the loop variables m, i and n
  s_surf_m, s_sh, s_ambisonics, dec_m, dec_i, dec_n,
  \* history: how often each row of s_ambisonics has been assigned
  writes

decodeArgs == <<signals, filter_bank, dec_N, alpha>>
decodeLocals == <<s_surf_m, s_sh, s_ambisonics, dec_m, dec_i, dec_n>>
decodeVars == <<decodeArgs, dec_pc, dec_raised, decodeLocals, writes>>

VARIABLES
  \* the caller: the number of calls made so far, and the finished calls of
  \* radial_filters_ema kept for comparison (their arguments and outcomes)
  calls, ref

callerVars == <<calls, ref>>

vars == <<designVars, limitVars, decodeVars, callerVars>>
notDesign == <<limitVars, decodeVars, callerVars>>
notLimit == <<designVars, decodeVars, callerVars>>
notDecode == <<designVars, limitVars, callerVars>>

\* lines 59-66: the checks of R, limit_dB and hankel_type.
CheckInputs ==
  /\ pc = "check"
  /\ IF ~IsNumber(R) THEN pc' = "raised" /\ raised' = ErrR
     ELSE IF ~IsNumber(limit_dB) THEN pc' = "raised" /\ raised' = ErrLimit
     ELSE IF hankel_type \notin {1, 2} THEN pc' = "raised" /\ raised' = ErrHankel
     ELSE pc' = "wavenumber" /\ raised' = raised
  /\ UNCHANGED <<notDesign, args, locals, history>>

\* lines 68-70: k, the zeroed b_n and kR; the loop over n is about to start.
ComputeWavenumber ==
  /\ pc = "wavenumber"
  /\ k' = [j \in DOMAIN f |-> Wavenumber(f[j])]
  /\ b_n' = Zeros(N + 1, Bins(f))
  /\ kR' = [j \in DOMAIN f |-> NudgedKR(Wavenumber(f[j]), R)]
  /\ n' = -1
  /\ ran' = ran \cup {"wavenumber"}
  /\ pc' = "hankel"
  /\ UNCHANGED <<notDesign, args, raised, radial_filters, m, n_prime, inverse_radial_filter,
                 inverse_radial_filter_t, b_n_before_patch, inverse_before_patch, f_at_call,
                 terms>>

\* lines 74-76: one pass of `for n in range(0, N + 1)`.
HankelStep ==
  /\ pc = "hankel"
  /\ n' = n + 1
  /\ b_n' = [b_n EXCEPT ![n'] = [j \in DOMAIN kR |-> RadialTerm(n', hankel_type, kR[j])]]
  /\ ran' = ran \cup {"hankel"}
  /\ pc' = IF n' = N THEN "patch_b" ELSE "hankel"
  /\ UNCHANGED <<notDesign, args, raised, k, kR, radial_filters, m, n_prime,
                 inverse_radial_filter, inverse_radial_filter_t, b_n_before_patch, inverse_before_patch, f_at_call,
                 terms>>

\* The patch with a radial_filters that is kept from the call before where
\* its shape fits, instead of a fresh array of zeros.
PatchBKeepsBank ==
  /\ pc = "patch_b"
  /\ b_n_before_patch' = b_n
  /\ b_n' = NanPatch(b_n)
  /\ radial_filters' =
       IF DOMAIN radial_filters = 0..(2 * N) /\ DOMAIN radial_filters[0] = DOMAIN b_n[0]
       THEN radial_filters ELSE Zeros(2 * N + 1, Bins(b_n[0]))
  /\ m' = -N - 1
  /\ n_prime' = N
  /\ terms' = [r \in 0..(2 * N) |-> << >>]
  /\ ran' = ran \cup {"patch_b"}
  /\ pc' = "assemble"
  /\ UNCHANGED <<notDesign, args, raised, k, kR, n, inverse_radial_filter,
                 inverse_radial_filter_t, inverse_before_patch, f_at_call>>

\* lines 78-83: the NaN patch of b_n and the zeroed radial_filters; the loop
\* over m and n_prime is about to start.
PatchB ==
  /\ pc = "patch_b"
  /\ b_n_before_patch' = b_n
  /\ b_n' = NanPatch(b_n)
  /\ radial_filters' = Zeros(2 * N + 1, Bins(b_n[0]))
  /\ m' = -N - 1
  /\ n_prime' = N
  /\ terms' = [r \in 0..(2 * N) |-> << >>]
  /\ ran' = ran \cup {"patch_b"}
  /\ pc' = "assemble"
  /\ UNCHANGED <<notDesign, args, raised, k, kR, n, inverse_radial_filter,
                 inverse_radial_filter_t, inverse_before_patch, f_at_call>>

\* The row of index m alone, without the offset by the leftover n.
AssembleRowByDegree(deg, loop_n, rows) == PyIndex(deg, rows)

\* The row radial_filters[m + n, :] += b_n[n_prime, :] * sph_harm(...)**2 adds to.
AssembleRow(deg, loop_n, rows) == PyIndex(deg + loop_n, rows)

\* lines 86-89: one pass of the inner loop `for n_prime in range(abs(m), N+1)`
\* of `for m in range(-N, N+1)`.
AssembleStep ==
  /\ pc = "assemble"
  /\ m' = IF n_prime < N THEN m ELSE m + 1
  /\ n_prime' = IF n_prime < N THEN n_prime + 1 ELSE AbsInt(m + 1)
  /\ LET row == AssembleRow(m', n, 2 * N + 1)
     IN  /\ radial_filters' =
           [radial_filters EXCEPT ![row] =
             [j \in DOMAIN radial_filters[row] |->
               Add(radial_filters[row][j],
                   Mul(b_n[n_prime'][j], SphHarmSquared(m', n_prime')))]]
         /\ terms' = [terms EXCEPT ![row] = Append(@, <<m', n_prime'>>)]
  /\ ran' = ran \cup {"assemble"}
  /\ pc' = IF m' = N /\ n_prime' = N THEN "invert" ELSE "assemble"
  /\ UNCHANGED <<notDesign, args, raised, k, kR, b_n, n, inverse_radial_filter,
                 inverse_radial_filter_t, b_n_before_patch, inverse_before_patch, f_at_call>>

\* line 92: inverse_radial_filter = 1 / radial_filters
Invert ==
  /\ pc = "invert"
  /\ inverse_radial_filter' =
       [r \in DOMAIN radial_filters |->
         [j \in DOMAIN radial_filters[r] |-> Reciprocal(radial_filters[r][j])]]
  /\ ran' = ran \cup {"invert"}
  /\ pc' = "regularize"
  /\ UNCHANGED <<notDesign, args, raised, k, kR, b_n, n, radial_filters, m, n_prime,
                 inverse_radial_filter_t, b_n_before_patch, inverse_before_patch, f_at_call,
                 terms>>

\* lines 94-103: the regularization, or the ValueError of an unknown type.
Regularize ==
  /\ pc = "regularize"
  /\ IF regularization_type \in {"soft", "hard"}
     THEN /\ inverse_radial_filter' =
               Limiting(inverse_radial_filter, regularization_type, limit_dB)
          /\ pc' = "patch_inverse" /\ raised' = raised
          /\ ran' = ran \cup {"regularize"}
     ELSE IF regularization_type = "tikhonov"
     THEN /\ inverse_radial_filter' = TikhonovRegularization(radial_filters, limit_dB)
          /\ pc' = "patch_inverse" /\ raised' = raised
          /\ ran' = ran \cup {"regularize"}
     ELSE /\ pc' = "raised" /\ raised' = ErrReg
          /\ UNCHANGED <<inverse_radial_filter, ran>>
  /\ UNCHANGED <<notDesign, args, k, kR, b_n, n, radial_filters, m, n_prime,
                 inverse_radial_filter_t, b_n_before_patch, inverse_before_patch, f_at_call,
                 terms>>

\* lines 105-109: the NaN patch of the regularized inverse.
PatchInverse ==
  /\ pc = "patch_inverse"
  /\ inverse_before_patch' = inverse_radial_filter
  /\ inverse_radial_filter' = NanPatch(inverse_radial_filter)
  /\ ran' = ran \cup {"patch_inverse"}
  /\ pc' = "irfft"
  /\ UNCHANGED <<notDesign, args, raised, k, kR, b_n, n, radial_filters, m, n_prime,
                 inverse_radial_filter_t, b_n_before_patch, f_at_call,
                 terms>>

\* lines 111-124: the inverse transform, the shift by half the length, the return.
ToTimeDomain ==
  /\ pc = "irfft"
  /\ inverse_radial_filter_t' =
       [r \in DOMAIN inverse_radial_filter |->
         CausalShift(IrfftRow(inverse_radial_filter[r]))]
  /\ ran' = ran \cup {"irfft"}
  /\ pc' = "done"
  /\ UNCHANGED <<notDesign, args, raised, k, kR, b_n, n, radial_filters, m, n_prime,
                 inverse_radial_filter, b_n_before_patch, inverse_before_patch, f_at_call,
                 terms>>

\* A call radial_filters_ema(f, R, N, limit_dB, regularization_type, hankel_type)
\* about to start; no local variable is bound.
InitDesign ==
  /\ f \in Grids
  /\ R \in RVals
  /\ N \in 0..MaxN
  /\ limit_dB \in LimitVals
  /\ regularization_type \in RegVals
  /\ hankel_type \in HankelVals
  /\ pc = "check" /\ raised = ""
  /\ k = << >> /\ kR = << >> /\ b_n = << >> /\ n = -1
  /\ radial_filters = << >> /\ m = -1 /\ n_prime = -1
  /\ inverse_radial_filter = << >> /\ inverse_radial_filter_t = << >>
  /\ b_n_before_patch = << >> /\ inverse_before_patch = << >>
  /\ ran = {} /\ f_at_call = f /\ terms = << >>

NextDesign ==
  \/ CheckInputs \/ ComputeWavenumber \/ HankelStep \/ PatchB \/ AssembleStep
  \/ Invert \/ Regularize \/ PatchInverse \/ ToTimeDomain


\* ------------------------------------------------- claims, radial_filters_ema
\* The limit 10^(limit_dB/20) of the call.
CallLimit == DbToAmplitude(limit_dB)

\* The arguments as the specification wants them: R a single finite positive
\* number, limit_dB a single number, the kind 1 or 2, a known regularization.
ArgsValid ==
  /\ R.t = "num" /\ R.x > 0
  /\ IsNumber(limit_dB)
  /\ hankel_type \in {1, 2}
  /\ regularization_type \in {"soft", "hard", "tikhonov"}

\* No element of the array a is NaN.
NanFree(a) == \A r \in DOMAIN a : \A j \in DOMAIN a[r] : ~IsNan(a[r][j])

\* C1: a call with an argument that is not valid (R not a single finite
\* positive number, limit_dB not a single number, a Hankel kind other than 1
\* and 2, an unknown regularization) returns no filter bank.
C1_InvalidArgumentsReturnNothing == ~ArgsValid => pc # "done"

\* C2: a validation error is raised before any numeric step has run.
C2_ErrorsBeforeNumericWork == pc = "raised" => ran = {}

\* C3: with soft or hard limiting, every entry of the bank handed to the
\* inverse transform (after _limiting and the NaN patch) has a magnitude of
\* at most the limit.
C3_MagnitudeAtMostLimit ==
  (pc = "irfft" /\ regularization_type \in {"soft", "hard"}) =>
    \A r \in DOMAIN inverse_radial_filter : \A j \in DOMAIN inverse_radial_filter[r] :
      MagLeq(Abs(inverse_radial_filter[r][j]), CallLimit)

\* C4: no array is handed to the next stage with a NaN in it: b_n to the
\* assembly of the forward response, the inverse to the regularizer, the
\* regularized bank to the inverse transform, the time domain bank to the caller.
C4_NoNanBetweenStages ==
  /\ pc = "assemble" => NanFree(b_n)
  /\ pc = "regularize" => NanFree(inverse_radial_filter)
  /\ pc = "irfft" => NanFree(inverse_radial_filter)
  /\ pc = "done" => NanFree(inverse_radial_filter_t)

\* The array a is the array before with each NaN at (r, j) replaced by the
\* magnitude of before[r][(j + 1) mod F] and every other entry kept.
PatchedFrom(a, before) ==
  /\ DOMAIN a = DOMAIN before
  /\ \A r \in DOMAIN a :
       /\ DOMAIN a[r] = DOMAIN before[r]
       /\ \A j \in DOMAIN a[r] :
            a[r][j] = IF IsNan(before[r][j])
                      THEN Abs(before[r][(j + 1) % Bins(before[r])])
                      ELSE before[r][j]

\* C9: the NaN patch replaces each NaN at (r, j) by the magnitude of the entry
\* at (r, (j+1) mod F) of the array as it was before the patch and keeps every
\* other entry, for b_n and for the regularized inverse alike.
C9_NanPatchPolicy ==
  /\ (pc \in {"assemble", "invert", "regularize", "patch_inverse", "irfft", "done"}
      \/ (pc = "raised" /\ raised = ErrReg))
       => PatchedFrom(b_n, b_n_before_patch)
  /\ pc \in {"irfft", "done"} => PatchedFrom(inverse_radial_filter, inverse_before_patch)

\* C9 witness: a returned call whose first patch replaced the NaN of a last bin
\* by the magnitude of bin 0, and whose second patch replaced a NaN by the
\* magnitude of a negative next bin.
C9_Witness ==
  /\ pc = "done"
  /\ \E r \in DOMAIN b_n :
       LET F == Bins(b_n[r])
       IN  /\ IsNan(b_n_before_patch[r][F - 1]) /\ b_n_before_patch[r][0].t = "num"
           /\ b_n[r][F - 1] = Abs(b_n_before_patch[r][0])
  /\ \E r \in DOMAIN inverse_radial_filter : \E j \in DOMAIN inverse_radial_filter[r] :
       LET next == inverse_before_patch[r][(j + 1) % Bins(inverse_radial_filter[r])]
       IN  /\ IsNan(inverse_before_patch[r][j])
           /\ next.t = "num" /\ next.x < 0
           /\ inverse_radial_filter[r][j] = Num(-next.x)

\* ------------------------------------------------- _limiting as a function
\* The elements the model passes to _limiting: NaN, the inf+nanj of 1/0, zero,
\* and finite values below, at and above the limits of 0 dB and 6 dB.
LimitingVals ==
  {NaN, InfNaN, Num(0), Num(-3), Num(ONE), Num(-2 * ONE), Num(5 * ONE)}
LimitingArrays ==
  UNION {[0..0 -> [0..(F - 1) -> LimitingVals]] : F \in 1..MaxF}

\* lines 28-65 of utils.py: the soft branch builds a new array, the hard
\* branch assigns into data and returns it.
ApplyLimiting ==
  /\ lim_pc = "call"
  /\ lim_before' = lim_data
  /\ lim_out' = Limiting(lim_data, lim_type, lim_db)
  /\ lim_data' = IF lim_type = "hard" THEN lim_out' ELSE lim_data
  /\ lim_pc' = "returned"
  /\ UNCHANGED <<notLimit, lim_type, lim_db>>

InitLimiting ==
  /\ lim_data \in LimitingArrays
  /\ lim_type \in {"soft", "hard"}
  /\ lim_db \in {Num(0), Num(6)}
  /\ lim_out = << >> /\ lim_before = << >>
  /\ lim_pc = "call"

\* No call of _limiting is under way.
IdleLimiting ==
  /\ lim_data = << >> /\ lim_type = "" /\ lim_db = Num(0)
  /\ lim_out = << >> /\ lim_before = << >>
  /\ lim_pc = "idle"

\* C10: hard limiting rescales every element whose magnitude exceeds
\* L = 10^(limit_db/20) to the magnitude L with its phase (here: sign) kept,
\* leaves every element of magnitude at most L as it was, and keeps the shape.
C10_HardLimitFrame ==
  (lim_pc = "returned" /\ lim_type = "hard") =>
    LET L == DbToAmplitude(lim_db)
    IN  /\ DOMAIN lim_out = DOMAIN lim_before
        /\ \A r \in DOMAIN lim_out :
             /\ DOMAIN lim_out[r] = DOMAIN lim_before[r]
             /\ \A j \in DOMAIN lim_out[r] :
                  LET d == lim_before[r][j]
                      o == lim_out[r][j]
                  IN  /\ MagGreater(Abs(d), L) =>
                           /\ Abs(o) = L
                           /\ d.t = "num" => o = Num(SignInt(d.x) * L.x)
                      /\ MagLeq(Abs(d), L) => o = d

\* --------------------------------- src/src/get_soundfield_coeffs_from_ema.py
\* Largest number of microphone channels M of signals.
MaxM == 2
\* Largest number of samples T_in of signals.
MaxTin == 2
\* Largest number of taps T of the filter bank.
MaxT == 3

\* The messages of the errors numpy raises.
ErrBroadcast == "ValueError: operands could not be broadcast together"
ErrIndex == "IndexError: index is out of bounds for axis 0"

\* The sample of channel i at time t of the model's signals, pattern p.
Sample(p, i, t) ==
  IF p = 0 THEN 1 + i + 2 * t
  ELSE IF (i + t) % 2 = 0 THEN -(1 + t) ELSE 2 + i

\* signals.time: M channels of T_in samples.
SignalSets ==
  {[i \in 0..(M - 1) |-> [t \in 0..(Tin - 1) |-> Sample(p, i, t)]] :
     p \in {0, 1}, M \in 1..MaxM, Tin \in 1..MaxTin}

\* radial_filters.time: C channels of T taps; channel i holds the taps times i + 1.
FilterBanks ==
  UNION {{[i \in 0..(C - 1) |-> [t \in 0..(T - 1) |-> (i + 1) * taps[t]]] :
            taps \in [0..(T - 1) -> {1, -2}]} :
          C \in 1..(2 * MaxN + 2), T \in 1..MaxT}

\* alpha: A angles, in quarter turns.
AlphaSets == {[i \in 0..(A - 1) |-> i] : A \in 1..(MaxM + 1)}

\* The number of rows of an array or entries of a vector.
Size(a) == Cardinality(DOMAIN a)

RECURSIVE SumTo(_, _)
\* g[0] + ... + g[last]
SumTo(g, last) == IF last < 0 THEN 0 ELSE g[last] + SumTo(g, last - 1)

\* np.zeros((rows, cols)) of reals
RealZeros(rows, cols) == [r \in 0..(rows - 1) |-> [t \in 0..(cols - 1) |-> 0]]

\* np.sin and np.cos of an angle of q quarter turns.
SinQ(q) == CASE q % 4 = 1 -> 1 [] q % 4 = 3 -> -1 [] OTHER -> 0
CosQ(q) == SinQ(q + 1)

\* np.sqrt(2) in units of 1/ONE.
Sqrt2 == ISqrt(2 * ONE * ONE)

\* Broadcasting that accepts equal row counts only.
CanBroadcastEqualOnly(M, A) == M = A

\* numpy broadcasting of an (M, T) array with an (A, 1) column.
CanBroadcast(M, A) == M = A \/ M = 1 \/ A = 1

\* np.sum(signals.time * np.sqrt(2) * column[:, None], axis=0) / signals.cshape[0]
\* for a column of A weights: the product has max(M, A) rows, the row i of an
\* operand with one row only is its row 0.  In units of 1/ONE.
Projection(x, column) ==
  LET M == Size(x)
      A == Size(column)
      rows == IF M > A THEN M ELSE A
  IN  [t \in DOMAIN x[0] |->
        SumTo([i \in 0..(rows - 1) |->
                 x[IF M = 1 THEN 0 ELSE i][t] * Sqrt2 * column[IF A = 1 THEN 0 ELSE i]],
              rows - 1) \div M]

\* np.sum(signals.time, axis=0) / signals.cshape[0], in units of 1/ONE.
Mean(x) ==
  [t \in DOMAIN x[0] |->
    (ONE * SumTo([i \in DOMAIN x |-> x[i][t]], Size(x) - 1)) \div Size(x)]

\* spsignal.oaconvolve(data, b, mode='full'): len(data) + len(b) - 1 samples,
\* each the sum of data[a] * b[t - a] over the a with a tap at t - a.
Convolve(data, b) ==
  [t \in 0..(Size(data) + Size(b) - 2) |->
    SumTo([a \in DOMAIN data |->
             IF t - a \in DOMAIN b THEN data[a] * b[t - a] ELSE 0],
          Size(data) - 1)]

\* out_full[..., 0:idx]
Leading(out_full, idx) ==
  [t \in {u \in DOMAIN out_full : u < idx} |-> out_full[t]]

\* The count without the + 1.
LeadingCountShort(full_len, n_samples) == full_len - n_samples

\* idx = out_full.shape[-1] - radial_filters.n_samples + 1
LeadingCount(full_len, n_samples) == full_len - n_samples + 1

\* The row without the offset n of the order.
AmbisonicRowNoOffset(order, deg) == order * order + deg

\* The row of s_ambisonics that order n and degree m are written to.
AmbisonicRow(order, deg) == order * order + order + deg

\* The column np.sin(np.abs(m) * alpha) or np.cos(m * alpha) of the weights.
SinColumn(deg) == [i \in DOMAIN alpha |-> SinQ(AbsInt(deg) * alpha[i])]
CosColumn(deg) == [i \in DOMAIN alpha |-> CosQ(deg * alpha[i])]

\* line 23: s_surf_m = np.zeros((2*N+1, signals.n_samples)); the loop
\* `for m in range(-N, 0)` is about to start.
DecodeStart ==
  /\ dec_pc = "start"
  /\ s_surf_m' = RealZeros(2 * dec_N + 1, Size(signals[0]))
  /\ dec_m' = -dec_N - 1
  /\ dec_pc' = IF dec_N >= 1 THEN "project_negative" ELSE "project_zero"
  /\ UNCHANGED <<notDecode, decodeArgs, dec_raised, s_sh, s_ambisonics, dec_i, dec_n,
                 writes>>

\* lines 27-31: one pass of `for m in range(-N, 0)`.  The product of the
\* (M, T_in) samples and the (len(alpha), 1) column raises where the shapes do
\* not broadcast.
ProjectNegative ==
  /\ dec_pc = "project_negative"
  /\ dec_m' = dec_m + 1
  /\ IF CanBroadcast(Size(signals), Size(alpha))
     THEN /\ s_surf_m' = [s_surf_m EXCEPT ![PyIndex(dec_m' + dec_N, Size(s_surf_m))] =
                            Projection(signals, SinColumn(dec_m'))]
          /\ dec_pc' = IF dec_m' = -1 THEN "project_zero" ELSE "project_negative"
          /\ dec_raised' = dec_raised
     ELSE /\ dec_pc' = "raised" /\ dec_raised' = ErrBroadcast
          /\ s_surf_m' = s_surf_m
  /\ UNCHANGED <<notDecode, decodeArgs, s_sh, s_ambisonics, dec_i, dec_n, writes>>

\* line 34: s_surf_m[0+N, :] = np.sum(signals.time, axis=0) / signals.cshape[0]
ProjectZero ==
  /\ dec_pc = "project_zero"
  /\ s_surf_m' = [s_surf_m EXCEPT ![PyIndex(0 + dec_N, Size(s_surf_m))] = Mean(signals)]
  /\ dec_pc' = IF dec_N >= 1 THEN "project_positive" ELSE "filter_alloc"
  /\ UNCHANGED <<notDecode, decodeArgs, dec_raised, s_sh, s_ambisonics, dec_m, dec_i,
                 dec_n, writes>>

\* lines 37-40: one pass of `for m in range(1, N+1)`.
ProjectPositive ==
  /\ dec_pc = "project_positive"
  /\ dec_m' = IF dec_m < 1 THEN 1 ELSE dec_m + 1
  /\ IF CanBroadcast(Size(signals), Size(alpha))
     THEN /\ s_surf_m' = [s_surf_m EXCEPT ![PyIndex(dec_m' + dec_N, Size(s_surf_m))] =
                            Projection(signals, CosColumn(dec_m'))]
          /\ dec_pc' = IF dec_m' = dec_N THEN "filter_alloc" ELSE "project_positive"
          /\ dec_raised' = dec_raised
     ELSE /\ dec_pc' = "raised" /\ dec_raised' = ErrBroadcast
          /\ s_surf_m' = s_surf_m
  /\ UNCHANGED <<notDecode, decodeArgs, s_sh, s_ambisonics, dec_i, dec_n, writes>>

\* lines 42-46: s_sh = np.zeros((2*N+1, signals.n_samples)); the loop
\* `for i in range(2*N + 1)` is about to start.
FilterAlloc ==
  /\ dec_pc = "filter_alloc"
  /\ s_sh' = RealZeros(2 * dec_N + 1, Size(signals[0]))
  /\ dec_i' = -1
  /\ dec_pc' = "filter"
  /\ UNCHANGED <<notDecode, decodeArgs, dec_raised, s_surf_m, s_ambisonics, dec_m, dec_n,
                 writes>>

\* lines 48-56: one pass of `for i in range(2*N + 1)`: the full convolution of
\* the mode series with the filter, cut to its leading idx samples.
\* radial_filters.time[i, :] raises where the bank has no channel i, and the
\* assignment to s_sh[i, :] where the cut has another length than the row.
FilterStep ==
  /\ dec_pc = "filter"
  /\ dec_i' = dec_i + 1
  /\ IF dec_i' \notin DOMAIN filter_bank
     THEN /\ dec_pc' = "raised" /\ dec_raised' = ErrIndex
          /\ s_sh' = s_sh
     ELSE LET b == filter_bank[dec_i']
              data == s_surf_m[dec_i']
              out_full == Convolve(data, b)
              idx == LeadingCount(Size(out_full), Size(filter_bank[0]))
              cut == Leading(out_full, idx)
          IN  IF Size(cut) = Size(s_sh[dec_i']) \/ Size(cut) = 1
              THEN /\ s_sh' = [s_sh EXCEPT ![dec_i'] =
                                 [t \in DOMAIN s_sh[dec_i'] |->
                                   cut[IF Size(cut) = 1 THEN 0 ELSE t]]]
                   /\ dec_pc' = IF dec_i' = 2 * dec_N THEN "expand_alloc" ELSE "filter"
                   /\ dec_raised' = dec_raised
              ELSE /\ dec_pc' = "raised" /\ dec_raised' = ErrBroadcast
                   /\ s_sh' = s_sh
  /\ UNCHANGED <<notDecode, decodeArgs, s_surf_m, s_ambisonics, dec_m, dec_n, writes>>

\* lines 58-60: s_ambisonics = np.zeros(((N+1)**2, signals.n_samples)); the
\* loops over n and m are about to start.
ExpandAlloc ==
  /\ dec_pc = "expand_alloc"
  /\ s_ambisonics' = RealZeros((dec_N + 1) * (dec_N + 1), Size(signals[0]))
  /\ writes' = [c \in 0..((dec_N + 1) * (dec_N + 1) - 1) |-> 0]
  /\ dec_n' = -1
  /\ dec_pc' = "expand"
  /\ UNCHANGED <<notDecode, decodeArgs, dec_raised, s_surf_m, s_sh, dec_m, dec_i>>

\* lines 62-69: one pass of `for m in range(-n, n+1)` of `for n in range(N+1)`;
\* the call returns after the last.
ExpandStep ==
  /\ dec_pc = "expand"
  /\ dec_n' = IF dec_n >= 0 /\ dec_m < dec_n THEN dec_n ELSE dec_n + 1
  /\ dec_m' = IF dec_n >= 0 /\ dec_m < dec_n THEN dec_m + 1 ELSE -(dec_n + 1)
  /\ LET row == PyIndex(AmbisonicRow(dec_n', dec_m'), Size(s_ambisonics))
     IN  /\ s_ambisonics' =
               [s_ambisonics EXCEPT ![row] =
                 [t \in DOMAIN s_ambisonics[row] |->
                   s_sh[PyIndex(dec_m' + dec_N, Size(s_sh))][t]
                     * MinusOnePower(dec_m') * SphHarm(AbsInt(dec_m'), dec_n')]]
         /\ writes' = [writes EXCEPT ![row] = @ + 1]
  /\ dec_pc' = IF dec_n' = dec_N /\ dec_m' = dec_N THEN "done" ELSE "expand"
  /\ UNCHANGED <<notDecode, decodeArgs, dec_raised, s_surf_m, s_sh, dec_i>>

\* A call get_sh_soundfield_coeffs_ema(signals, radial_filters, N, alpha) about
\* to start; no local variable is bound.
InitDecode ==
  /\ signals \in SignalSets
  /\ filter_bank \in FilterBanks
  /\ dec_N \in 0..MaxN
  /\ alpha \in AlphaSets
  /\ dec_pc = "start" /\ dec_raised = ""
  /\ s_surf_m = << >> /\ s_sh = << >> /\ s_ambisonics = << >>
  /\ dec_m = -1 /\ dec_i = -1 /\ dec_n = -1
  /\ writes = << >>

\* No call of get_sh_soundfield_coeffs_ema is under way.
IdleDecode ==
  /\ signals = << >> /\ filter_bank = << >> /\ dec_N = 0 /\ alpha = << >>
  /\ dec_pc = "idle" /\ dec_raised = ""
  /\ s_surf_m = << >> /\ s_sh = << >> /\ s_ambisonics = << >>
  /\ dec_m = -1 /\ dec_i = -1 /\ dec_n = -1
  /\ writes = << >>

NextDecode ==
  \/ DecodeStart \/ ProjectNegative \/ ProjectZero \/ ProjectPositive
  \/ FilterAlloc \/ FilterStep \/ ExpandAlloc \/ ExpandStep

\* No caller state: the specifications of a single call keep it fixed.
IdleCaller == calls = 0 /\ ref = {}

\* ------------------------------------ claims, get_sh_soundfield_coeffs_ema
\* The shapes of the arguments of the call: M channels of T_in samples, the
\* angles, C filter channels of T taps.
ChannelsM == Size(signals)
SamplesTin == Size(signals[0])
AnglesA == Size(alpha)
BankChannels == Size(filter_bank)
BankTaps == Size(filter_bank[0])

\* len(alpha) differs from M, or the bank has another channel count than 2N+1.
Mismatch == AnglesA # ChannelsM \/ BankChannels # 2 * dec_N + 1

\* C6 as claimed: a call with a mismatch never fails, it returns a signal set.
C6_MismatchNeverFails == Mismatch => dec_pc # "raised"

\* C6 as amended: the function checks nothing itself, and a call fails exactly
\* where numpy does: with a broadcast ValueError when N >= 1, M # 1 and
\* len(alpha) is neither 1 nor M, and with an IndexError when the shapes
\* broadcast (or N = 0) and the bank has fewer than 2N+1 channels.  Every
\* other call, mismatched or not, returns (N+1)^2 channels of T_in samples.
C6_FailsWhereNumpyFails ==
  LET shapes_fit == dec_N = 0 \/ AnglesA = ChannelsM \/ AnglesA = 1 \/ ChannelsM = 1
  IN  /\ dec_pc = "raised" =>
           \/ dec_raised = ErrBroadcast /\ ~shapes_fit
           \/ dec_raised = ErrIndex /\ shapes_fit /\ BankChannels < 2 * dec_N + 1
      /\ dec_pc = "done" =>
           /\ shapes_fit /\ BankChannels >= 2 * dec_N + 1
           /\ Size(s_ambisonics) = (dec_N + 1) * (dec_N + 1)
           /\ \A c \in DOMAIN s_ambisonics : Size(s_ambisonics[c]) = SamplesTin

\* C6 witness: a call with both mismatches (one angle for two channels, one
\* filter channel too many) that returned.
C6_Witness ==
  /\ dec_pc = "done" /\ dec_N >= 1
  /\ AnglesA = 1 /\ ChannelsM = 2 /\ BankChannels = 2 * dec_N + 2

\* The leading part of the linear convolution at sample t: the sum over
\* k = 0..min(t, T-1) of filter[k] * input[t-k].
LeadingSum(filter, input, t) ==
  LET last == IF t < Size(filter) - 1 THEN t ELSE Size(filter) - 1
  IN  SumTo([kk \in 0..last |-> filter[kk] * input[t - kk]], last)

\* C7: once the modes are filtered, each of the 2N+1 filtered series has T_in
\* samples, and sample t is the sum over k = 0..min(t, T-1) of
\* filter[k] * input[t-k], whatever the filter length T.
C7_FilteredKeepsLength ==
  dec_pc \in {"expand_alloc", "expand", "done"} =>
    /\ DOMAIN s_sh = 0..(2 * dec_N)
    /\ \A i \in DOMAIN s_sh :
         /\ DOMAIN s_sh[i] = 0..(SamplesTin - 1)
         /\ \A t \in DOMAIN s_sh[i] :
              s_sh[i][t] = LeadingSum(filter_bank[i], s_surf_m[i], t)

\* C7 witness: a returned call whose filter is longer than its input of two
\* samples, with a filtered sample that is not zero.
C7_Witness ==
  /\ dec_pc = "done" /\ dec_N >= 1
  /\ SamplesTin = 2 /\ BankTaps > SamplesTin
  /\ \E i \in DOMAIN s_sh : s_sh[i][1] # 0 /\ s_sh[i][1] # s_sh[i][0]

\* The pairs (n, m) of the expansion: n in 0..N, m in -n..n.
Modes == {nm \in (0..dec_N) \X ((-dec_N)..dec_N) : AbsInt(nm[2]) <= nm[1]}

\* C8: (n, m) -> n^2 + n + m maps the modes one to one onto the (N+1)^2 rows
\* of the output; no row is assigned twice, and when the call returns every
\* row has been assigned once and holds the filtered mode of degree m times
\* (-1)^m times the harmonic of order n and degree |m| at the equator.
C8_ExpansionFillsOutput ==
  /\ dec_pc \in {"expand", "done"} =>
       /\ DOMAIN s_ambisonics = 0..((dec_N + 1) * (dec_N + 1) - 1)
       /\ \A c \in DOMAIN writes : writes[c] <= 1
       /\ \A c \in DOMAIN s_ambisonics :
            Cardinality({nm \in Modes : nm[1] * nm[1] + nm[1] + nm[2] = c}) = 1
  /\ dec_pc = "done" =>
       /\ \A c \in DOMAIN writes : writes[c] = 1
       /\ \A nm \in Modes :
            s_ambisonics[nm[1] * nm[1] + nm[1] + nm[2]] =
              [t \in 0..(SamplesTin - 1) |->
                s_sh[nm[2] + dec_N][t] * (IF nm[2] % 2 = 0 THEN 1 ELSE -1)
                  * SphHarm(AbsInt(nm[2]), nm[1])]

\* C8 witness: a returned call of order N >= 1 whose row of (n, m) = (1, -1)
\* is not zero.
C8_Witness ==
  /\ dec_pc = "done" /\ dec_N >= 1
  /\ \E t \in DOMAIN s_ambisonics[1] : s_ambisonics[1][t] # 0
\* ------------------------------------------------------- a session of calls
\* The number of calls of a session.
MaxCalls == 4

\* The grid f with the bins of a tuple.
Grid(bins) == [j \in 0..(Len(bins) - 1) |-> bins[j + 1]]

\* The arguments <<f, R, N, limit_dB, regularization_type, hankel_type>> of the
\* calls of radial_filters_ema a session makes.
DesignCalls ==
  { <<Grid(<<Num(0), Num(1), Num(1)>>), Num(1), 1, Num(0), "hard", 2>>,
    <<Grid(<<Num(0), Num(1), Num(1)>>), Num(1), 1, Num(6), "soft", 2>>,
    <<Grid(<<Num(0), Num(1), Num(1)>>), Num(1), 0, Num(6), "tikhonov", 2>>,
    <<Grid(<<Num(1), Num(1)>>), Num(1), 1, Num(6), "soft", 1>>,
    <<Grid(<<Num(1), Num(0)>>), Num(1), 1, Num(6), "asd", 2>>,
    <<Grid(<<Num(1), Num(1)>>), PySeq, 0, Num(0), "hard", 2>> }

\* The arguments <<signals, radial_filters, N, alpha>> of the calls of
\* get_sh_soundfield_coeffs_ema a session makes.
DecodeCalls ==
  {c \in SignalSets \X FilterBanks \X (0..MaxN) \X AlphaSets :
     /\ Size(c[1]) = 2 /\ Size(c[1][0]) = 2 /\ c[1][0][0] = Sample(0, 0, 0)
     /\ Size(c[2]) = 2 * MaxN + 1 /\ Size(c[2][0]) = 2
     /\ \A t \in DOMAIN c[2][0] : c[2][0][t] = 1
     /\ c[3] = MaxN
     /\ Size(c[4]) \in {2, 3}}

\* What a finished call of radial_filters_ema gave its caller: the bank it
\* returned, or the error it raised.
Outcome ==
  [bank |-> IF pc = "done" THEN inverse_radial_filter_t ELSE << >>,
   error |-> raised]

\* No call is under way: the program runs one call at a time.
AtRest == pc \in {"idle", "done", "raised"} /\ dec_pc \in {"idle", "done", "raised"}

\* The caller calls radial_filters_ema.  The locals of the call before are
\* left as they were: nothing of them is passed to the new call, which has
\* to assign each of them before it reads it.
CallDesign ==
  /\ AtRest /\ calls < MaxCalls
  /\ \E c \in DesignCalls :
       /\ f' = c[1] /\ R' = c[2] /\ N' = c[3] /\ limit_dB' = c[4]
       /\ regularization_type' = c[5] /\ hankel_type' = c[6]
       /\ f_at_call' = c[1]
  /\ pc' = "check" /\ raised' = "" /\ ran' = {}
  /\ calls' = calls + 1
  /\ ref' = IF pc = "idle" THEN ref ELSE ref \cup {[args |-> args, out |-> Outcome]}
  /\ UNCHANGED <<limitVars, decodeVars, locals, b_n_before_patch, inverse_before_patch,
                 terms>>

\* The caller calls get_sh_soundfield_coeffs_ema.
CallDecode ==
  /\ AtRest /\ calls < MaxCalls
  /\ \E c \in DecodeCalls :
       signals' = c[1] /\ filter_bank' = c[2] /\ dec_N' = c[3] /\ alpha' = c[4]
  /\ dec_pc' = "start" /\ dec_raised' = ""
  /\ calls' = calls + 1
  /\ UNCHANGED <<designVars, limitVars, decodeLocals, writes, ref>>

\* C5: radial_filters_ema is a pure function.  A call leaves the grid f as
\* the caller passed it, and two finished calls with the same arguments have
\* the same outcome (the same bank, or the same error), whatever calls of
\* radial_filters_ema and get_sh_soundfield_coeffs_ema were made before and
\* between them.
C5_DesignIsPure ==
  /\ f = f_at_call
  /\ \A r1 \in ref, r2 \in ref : r1.args = r2.args => r1.out = r2.out
  /\ pc \in {"done", "raised"} =>
       \A r \in ref : r.args = args => r.out = Outcome

\* C5 witness: a call that returned a bank after an earlier call with the same
\* arguments, with a call with other arguments that returned a bank of
\* another shape, and a finished call of get_sh_soundfield_coeffs_ema, made
\* in the session as well.
C5_Witness ==
  /\ pc = "done" /\ dec_pc = "done" /\ N >= 1
  /\ \E r \in ref : r.args = args /\ r.out = Outcome
  /\ \E r \in ref : /\ r.args # args /\ r.out.error = ""
                     /\ DOMAIN r.out.bank # DOMAIN inverse_radial_filter_t

\* ------------------------------------- a designed bank passed to the decoder
\* Every tap of the bank is a finite number.
FiniteBank(bank) ==
  \A r \in DOMAIN bank : \A t \in DOMAIN bank[r] : bank[r][t].t = "num"

\* radial_filters.time of the Signal that radial_filters_ema returned: the
\* taps, in units of 1/ONE.
Taps(bank) == [i \in DOMAIN bank |-> [t \in DOMAIN bank[i] |-> bank[i][t].x]]

\* A call radial_filters_ema(f, R, N, limit_dB, regularization_type,
\* hankel_type) with a grid of finite frequencies and arguments that pass
\* every check.
InitRows ==
  /\ InitDesign
  /\ \A j \in DOMAIN f : f[j].t = "num"
  /\ R = Num(1)
  /\ limit_dB \in {Num(0), Num(6)}
  /\ regularization_type \in {"soft", "hard", "tikhonov"}
  /\ hankel_type \in {1, 2}

\* The caller passes the bank that radial_filters_ema returned, and the N it
\* was designed for, to get_sh_soundfield_coeffs_ema, with signals of M
\* channels and M angles.
PassToDecode ==
  /\ pc = "done" /\ dec_pc = "idle"
  /\ FiniteBank(inverse_radial_filter_t)
  /\ filter_bank' = Taps(inverse_radial_filter_t)
  /\ dec_N' = N
  /\ signals' \in SignalSets
  /\ alpha' \in {a \in AlphaSets : Size(a) = Size(signals')}
  /\ dec_pc' = "start" /\ dec_raised' = ""
  /\ UNCHANGED <<designVars, limitVars, callerVars, decodeLocals, writes>>

\* The circular-harmonic series of degree deg of the signals (eq. 8).
DegreeSeries(deg) ==
  IF deg < 0 THEN Projection(signals, SinColumn(deg))
  ELSE IF deg = 0 THEN Mean(signals)
  ELSE Projection(signals, CosColumn(deg))

\* The rows of radial_filters that hold a term of degree deg.
RowsOfDegree(deg) ==
  {r \in DOMAIN terms : \E i \in DOMAIN terms[r] : terms[r][i][1] = deg}

\* C11: filter design and decoding agree on the row of each degree.  In
\* radial_filters_ema the variable n left over from the loop over the orders
\* is N, radial_filters has 2N+1 rows, every term of degree m is added to row
\* m + N, so no two degrees share a row, and once the assembly is over row
\* m + N has received exactly the N - |m| + 1 terms of the orders |m|..N, one
\* each.  In get_sh_soundfield_coeffs_ema called with the designed bank, row
\* m + N holds the series of degree m, it is filtered with row m + N of the
\* bank, which is the filter designed from the terms of degree m, and the
\* channel of (n, m) is computed from that filtered row.
C11_RowsAgree ==
  /\ pc \in {"assemble", "invert", "regularize", "patch_inverse", "irfft", "done"} =>
       /\ n = N
       /\ DOMAIN radial_filters = 0..(2 * N) /\ DOMAIN terms = 0..(2 * N)
       /\ \A deg \in (-N)..N : RowsOfDegree(deg) \subseteq {deg + N}
  /\ pc \in {"invert", "regularize", "patch_inverse", "irfft", "done"} =>
       \A deg \in (-N)..N :
         terms[deg + N] = [i \in 1..(N - AbsInt(deg) + 1) |-> <<deg, AbsInt(deg) + i - 1>>]
  /\ dec_pc \in {"filter_alloc", "filter", "expand_alloc", "expand", "done"} =>
       \A deg \in (-dec_N)..dec_N : s_surf_m[deg + dec_N] = DegreeSeries(deg)
  /\ dec_pc \in {"expand_alloc", "expand", "done"} =>
       \A deg \in (-dec_N)..dec_N : \A r \in RowsOfDegree(deg) :
         s_sh[deg + dec_N] =
           [t \in DOMAIN signals[0] |->
             LeadingSum(Taps(inverse_radial_filter_t)[r], DegreeSeries(deg), t)]
  /\ dec_pc = "done" =>
       \A nm \in Modes : \A r \in RowsOfDegree(nm[2]) :
         s_ambisonics[nm[1] * nm[1] + nm[1] + nm[2]] =
           [t \in DOMAIN signals[0] |->
             LeadingSum(Taps(inverse_radial_filter_t)[r], DegreeSeries(nm[2]), t)
               * MinusOnePower(nm[2]) * SphHarm(AbsInt(nm[2]), nm[1])]

\* C11 witness: a bank of order N >= 1 whose rows of the degrees -1 and 0
\* differ, passed to the decoder, which returned a channel of (1, -1) that is
\* not zero; row N of radial_filters received N + 1 terms.
C11_Witness ==
  /\ pc = "done" /\ dec_pc = "done" /\ N >= 1
  /\ Len(terms[N]) = N + 1 /\ Len(terms[N - 1]) = N
  /\ filter_bank[N - 1] # filter_bank[N]
  /\ \E t \in DOMAIN s_ambisonics[1] : s_ambisonics[1][t] # 0

\* ------------------------------------------------------------ specifications

\* No call of radial_filters_ema is under way.
IdleDesign ==
  /\ f = << >> /\ R = Num(0) /\ N = 0 /\ limit_dB = Num(0)
  /\ regularization_type = "" /\ hankel_type = 0
  /\ pc = "idle" /\ raised = ""
  /\ k = << >> /\ kR = << >> /\ b_n = << >> /\ n = -1
  /\ radial_filters = << >> /\ m = -1 /\ n_prime = -1
  /\ inverse_radial_filter = << >> /\ inverse_radial_filter_t = << >>
  /\ b_n_before_patch = << >> /\ inverse_before_patch = << >>
  /\ ran = {} /\ f_at_call = << >> /\ terms = << >>

\* One call of radial_filters_ema.
Init == InitDesign /\ IdleLimiting /\ IdleDecode /\ IdleCaller
Next == NextDesign
Spec == Init /\ [][Next]_vars

\* One call of _limiting.
InitLimit == InitLimiting /\ IdleDesign /\ IdleDecode /\ IdleCaller
NextLimit == ApplyLimiting
SpecLimit == InitLimit /\ [][NextLimit]_vars

\* One call of get_sh_soundfield_coeffs_ema.
InitDecodeCall == InitDecode /\ IdleDesign /\ IdleLimiting /\ IdleCaller
SpecDecode == InitDecodeCall /\ [][NextDecode]_vars

\* A session: calls of radial_filters_ema and get_sh_soundfield_coeffs_ema,
\* one after the other.
InitPure == IdleDesign /\ IdleLimiting /\ IdleDecode /\ IdleCaller
NextPure == CallDesign \/ CallDecode \/ NextDesign \/ NextDecode
SpecPure == InitPure /\ [][NextPure]_vars

\* A call of radial_filters_ema, and then a call of
\* get_sh_soundfield_coeffs_ema with the bank it returned.
InitRowsCall == InitRows /\ IdleLimiting /\ IdleDecode /\ IdleCaller
NextRows == NextDesign \/ PassToDecode \/ NextDecode
SpecRows == InitRowsCall /\ [][NextRows]_vars
====
